---- MODULE Spec2Model ----
(***************************************************************************)
(* The moderation settings modal (ModerationSettingModal): its working     *)
(* copy localeData, the handlers that mutate it, the validation done by    *)
(* handleSave and the projection done by formatData.                       *)
(*                                                                         *)
(* JavaScript objects are functions from keys to values; a key that is     *)
(* absent from the domain reads as undefined.  localeData.configs being    *)
(* undefined is the key "configs" being absent from localeData.           *)
(***************************************************************************)
EXTENDS Integers, Sequences, FiniteSets, TLC

VARIABLES
    localeData,              \* useState<ModerationConfig>(data)
    codeBasedExtensionList,  \* useSWR(...).data: <<>> while pending, <<response>> once resolved
    locale,                  \* useContext(I18n).locale
    notified,                \* the notify(...) calls made by the handler that ran last
    saved,                   \* the onSave(...) calls made by the handler that ran last
    faulted,                 \* the handler that ran last threw a TypeError
    event                    \* the handler that ran last, with its argument

vars == <<localeData, codeBasedExtensionList, locale, notified, saved, faulted, event>>

----------------------------------------------------------------------------
(* Objects *)

EmptyObj == [k \in {} |-> TRUE]

Has(obj, k) == k \in DOMAIN obj

\* { ...a, ...b }
Spread(a, b) == [k \in DOMAIN a \cup DOMAIN b |-> IF k \in DOMAIN b THEN b[k] ELSE a[k]]

\* { [k]: v }
Single(k, v) == [x \in {k} |-> v]

\* !obj[k] for a string-valued property: undefined and '' are falsy
FalsyStr(obj, k) == ~Has(obj, k) \/ obj[k] = ""

\* c?.enabled for a ModerationContentConfig that may be undefined
EnabledOf(cfgs, dir) == Has(cfgs, dir) /\ Has(cfgs[dir], "enabled") /\ cfgs[dir].enabled

\* localeData.configs with undefined read as an object without keys
\* (what the spread ...localeData.configs and the chain configs?.x see)
ConfigsOf(d) == IF Has(d, "configs") THEN d.configs ELSE EmptyObj

----------------------------------------------------------------------------
(* Strings *)

RECURSIVE Repeat(_, _)
\* s.repeat(n), by halves
Repeat(s, n) ==
    IF n = 0 THEN ""
    ELSE IF n = 1 THEN s
    ELSE Repeat(s, n \div 2) \o Repeat(s, n - (n \div 2))

\* s.slice(0, n)
StrSlice(s, n) == SubSeq(s, 1, IF Len(s) < n THEN Len(s) ELSE n)

RECURSIVE Split(_)
\* s.split('\n'), by halves: the pieces of the left half, then those of the
\* right half, the last piece of the left and the first of the right being
\* one piece
Split(s) ==
    IF Len(s) = 0 THEN <<"">>
    ELSE IF Len(s) = 1 THEN (IF s = "\n" THEN <<"", "">> ELSE <<s>>)
    ELSE LET h == Len(s) \div 2
             l == Split(SubSeq(s, 1, h))
             r == Split(SubSeq(s, h + 1, Len(s)))
         IN  SubSeq(l, 1, Len(l) - 1) \o <<l[Len(l)] \o r[1]>> \o Tail(r)

RECURSIVE Join(_)
\* arr.join('\n'), by halves
Join(arr) ==
    IF Len(arr) = 0 THEN ""
    ELSE IF Len(arr) = 1 THEN arr[1]
    ELSE LET h == Len(arr) \div 2
         IN  Join(SubSeq(arr, 1, h)) \o "\n" \o Join(SubSeq(arr, h + 1, Len(arr)))

\* arr.slice(0, n)
ArrSlice(arr, n) == SubSeq(arr, 1, IF Len(arr) < n THEN Len(arr) ELSE n)

\* arr.filter(Boolean).length for an array of strings
CountNonEmpty(arr) == Cardinality({i \in 1..Len(arr) : arr[i] # ""})

----------------------------------------------------------------------------
(* Providers *)

systemTypes == <<"openai_moderation", "keywords", "api">>

\* systemTypes.findIndex(t => t === type) < 0
NotSystemType(type) == \A i \in 1..Len(systemTypes) : systemTypes[i] # type

Label(en, zh) == ("en-US" :> en) @@ ("zh-Hans" :> zh)

\* The response of GET /code-based-extension?module=moderation: one extension
\* whose form asks for api_key, then region.
CodeBasedExtensionResponse ==
    [data |-> <<
        [name |-> "cloud_filter",
         label |-> Label("Cloud Filter", "zh:Cloud Filter"),
         form_schema |-> <<
            [variable |-> "api_key", label |-> Label("API Key", "zh:API Key")],
            [variable |-> "region", label |-> Label("Region", "zh:Region")] >>] >>]

\* The extension items mapped to providers (name is display text, left out)
ExtensionProviders(list) ==
    IF Len(list) > 0
    THEN [i \in 1..Len(list[1].data) |->
            [key |-> list[1].data[i].name,
             form_schema |-> list[1].data[i].form_schema]]
    ELSE <<>>

\* const providers: Provider[]
ProvidersOf(list) ==
    << [key |-> "openai_moderation"], [key |-> "keywords"], [key |-> "api"] >>
        \o ExtensionProviders(list)

providers == ProvidersOf(codeBasedExtensionList)

\* provs.find(provider => provider.key === type): <<>> when there is none
FindProvider(provs, type) ==
    LET hits == {i \in 1..Len(provs) : provs[i].key = type}
    IN  IF hits = {} THEN <<>>
        ELSE <<provs[CHOOSE i \in hits : \A j \in hits : i <= j]>>

currentProvider == FindProvider(providers, localeData.type)

\* currentProvider?.form_schema, as a list that is empty when the provider or
\* its schema is undefined, and the truthiness test on it
HasFormSchema(cur) == Len(cur) > 0 /\ Has(cur[1], "form_schema")

FormSchemaOf(cur) == IF HasFormSchema(cur) THEN cur[1].form_schema ELSE <<>>

----------------------------------------------------------------------------
(* handleDataKeywordsChange's text processing *)

MaxLineLength == 100

MaxLines == 100

\* KeywordsStep without its second branch: an empty line is never pushed
KeywordsStepDropEmpty(prev, next) ==
    IF next # "" THEN Append(prev, StrSlice(next, MaxLineLength)) ELSE prev

\* One call of the reduce callback: a non-empty line is pushed cut to 100
\* characters; an empty line is pushed unless the last element of prev is
\* '' (prev[prev.length - 1] is undefined, not '', while prev is empty).
KeywordsStep(prev, next) ==
    LET p1 == IF next # "" THEN Append(prev, StrSlice(next, MaxLineLength)) ELSE prev
    IN  IF next = "" /\ (Len(p1) = 0 \/ p1[Len(p1)] # "")
        THEN Append(p1, next) ELSE p1

RECURSIVE KeywordsReduce(_, _, _, _)
\* lines.reduce(callback, prev) over lines[lo..hi], left to right: the first
\* half, then the second half from what the first half left
KeywordsReduce(lines, lo, hi, prev) ==
    IF lo > hi THEN prev
    ELSE IF lo = hi THEN KeywordsStep(prev, lines[lo])
    ELSE LET mid == (lo + hi) \div 2
             first == KeywordsReduce(lines, lo, mid, prev)
         IN  IF Len(first) = 0 THEN KeywordsReduce(lines, mid + 1, hi, <<>>)
             ELSE KeywordsReduce(lines, mid + 1, hi, first)

\* KeywordsValue without arr.slice(0, 100): every line is kept
KeywordsValueUncapped(value) ==
    LET lines == Split(value)
    IN  Join(KeywordsReduce(lines, 1, Len(lines), <<>>))

\* arr.slice(0, 100).join('\n')
KeywordsValue(value) ==
    LET lines == Split(value)
    IN  Join(ArrSlice(KeywordsReduce(lines, 1, Len(lines), <<>>), MaxLines))

\* The counter beside the textarea:
\* (localeData.configs?.keywords || '').split('\n').filter(Boolean).length
KeywordsLineCount(d) ==
    CountNonEmpty(Split(IF Has(ConfigsOf(d), "keywords") THEN ConfigsOf(d).keywords ELSE ""))

----------------------------------------------------------------------------
(* formatData and the validation of handleSave *)

\* params: what formatData collects besides the two content configs.  A key
\* whose value in configs is undefined is left out; handleSave reaches
\* formatData only after every key collected here was found truthy.
FormatParams(type, cfgs, cur) ==
    LET fixed == IF type = "keywords" THEN {"keywords"}
                 ELSE IF type = "api" THEN {"api_based_extension_id"}
                 ELSE {}
        schema == IF NotSystemType(type) /\ HasFormSchema(cur)
                  THEN {FormSchemaOf(cur)[i].variable : i \in 1..Len(FormSchemaOf(cur))}
                  ELSE {}
    IN  [k \in (fixed \cup schema) \cap DOMAIN cfgs |-> cfgs[k]]

\* inputs_configs || { enabled: false }
ContentOrDefault(cfgs, dir) == IF Has(cfgs, dir) THEN cfgs[dir] ELSE [enabled |-> FALSE]

\* formatData spreading all of configs into its result
formatDataPassthrough(originData, cur) ==
    LET cfgs == originData.configs
    IN  [type |-> originData.type,
         enabled |-> originData.enabled,
         configs |-> Spread(cfgs,
            [inputs_configs |-> ContentOrDefault(cfgs, "inputs_configs"),
             outputs_configs |-> ContentOrDefault(cfgs, "outputs_configs")])]

\* formatData with the two content configs under each other's key
formatDataSwapped(originData, cur) ==
    LET cfgs == originData.configs
    IN  [type |-> originData.type,
         enabled |-> originData.enabled,
         configs |-> Spread(
            [inputs_configs |-> ContentOrDefault(cfgs, "outputs_configs"),
             outputs_configs |-> ContentOrDefault(cfgs, "inputs_configs")],
            FormatParams(originData.type, cfgs, cur))]

\* formatData(originData), with the currentProvider of the render it closes over.
\* Called only with configs defined (see handleSaveOutcome).
formatData(originData, cur) ==
    LET cfgs == originData.configs
    IN  [type |-> originData.type,
         enabled |-> originData.enabled,
         configs |-> Spread(
            [inputs_configs |-> ContentOrDefault(cfgs, "inputs_configs"),
             outputs_configs |-> ContentOrDefault(cfgs, "outputs_configs")],
            FormatParams(originData.type, cfgs, cur))]

\* t('appDebug.feature.moderation.modal.content.condition')
ConditionMessage == [message |-> "appDebug.feature.moderation.modal.content.condition"]

\* t('appDebug.errorMessage.valueOfVarRequired', { key })
ValueOfVarRequired(key) == [message |-> "appDebug.errorMessage.valueOfVarRequired", key |-> key]

\* t('appDebug.feature.moderation.modal.content.errorMessage')
PresetMessage == [message |-> "appDebug.feature.moderation.modal.content.errorMessage"]

\* FirstMissingField with the loop running on to the last falsy field
LastMissingField(schema, cfgs) ==
    LET missing == {i \in 1..Len(schema) : FalsyStr(cfgs, schema[i].variable)}
    IN  IF missing = {} THEN 0 ELSE CHOOSE i \in missing : \A j \in missing : i >= j

\* the index of the first schema field with a falsy value, 0 when there is none
\* (the for loop over currentProvider.form_schema returns at the first one)
FirstMissingField(schema, cfgs) ==
    LET missing == {i \in 1..Len(schema) : FalsyStr(cfgs, schema[i].variable)}
    IN  IF missing = {} THEN 0 ELSE CHOOSE i \in missing : \A j \in missing : i <= j

\* PresetMissing with the outputs check reading inputs_configs
PresetMissingInputsOnly(d, dir) ==
    /\ EnabledOf(d.configs, "inputs_configs")
    /\ FalsyStr(d.configs["inputs_configs"], "preset_response")
    /\ d.type # "api"

\* enabled && !preset_response && type !== 'api' for one direction
PresetMissing(d, dir) ==
    /\ EnabledOf(d.configs, dir)
    /\ FalsyStr(d.configs[dir], "preset_response")
    /\ d.type # "api"

Pass == [kind |-> "pass"]

Reject(msg) == [kind |-> "notify", message |-> msg]

\* reading a property of undefined
TypeError == [kind |-> "fault"]

\* Validate with the keywords and api checks ahead of the check that a
\* direction is enabled: their unguarded reads come first
ValidateDirectionCheckLate(d, cur, loc) ==
    IF d.type = "keywords" /\ ~Has(d, "configs") THEN TypeError
    ELSE IF d.type = "keywords" /\ FalsyStr(d.configs, "keywords")
    THEN Reject(ValueOfVarRequired(IF loc = "en" THEN "keywords" ELSE "zh:keywords"))
    ELSE IF d.type = "api" /\ ~Has(d, "configs") THEN TypeError
    ELSE IF d.type = "api" /\ FalsyStr(d.configs, "api_based_extension_id")
    THEN Reject(ValueOfVarRequired(IF loc = "en" THEN "API-based Extension"
                                                   ELSE "zh:API-based Extension"))
    ELSE IF ~EnabledOf(ConfigsOf(d), "inputs_configs") /\ ~EnabledOf(ConfigsOf(d), "outputs_configs")
    THEN Reject(ConditionMessage)
    ELSE IF /\ NotSystemType(d.type) /\ HasFormSchema(cur)
            /\ FirstMissingField(FormSchemaOf(cur), ConfigsOf(d)) # 0
    THEN LET form == FormSchemaOf(cur)[FirstMissingField(FormSchemaOf(cur), ConfigsOf(d))]
         IN  Reject(ValueOfVarRequired(IF loc = "en" THEN form.label["en-US"]
                                                     ELSE form.label["zh-Hans"]))
    ELSE IF ~Has(d, "configs") THEN TypeError
    ELSE IF PresetMissing(d, "inputs_configs") THEN Reject(PresetMessage)
    ELSE IF PresetMissing(d, "outputs_configs") THEN Reject(PresetMessage)
    ELSE Pass

\* The checks of handleSave in their order, for working copy d, current
\* provider cur and locale loc: the message of the check that returns, a
\* TypeError where an unguarded read meets configs undefined, or Pass.
Validate(d, cur, loc) ==
    IF ~EnabledOf(ConfigsOf(d), "inputs_configs") /\ ~EnabledOf(ConfigsOf(d), "outputs_configs")
    THEN Reject(ConditionMessage)
    ELSE IF d.type = "keywords" /\ ~Has(d, "configs") THEN TypeError
    ELSE IF d.type = "keywords" /\ FalsyStr(d.configs, "keywords")
    THEN Reject(ValueOfVarRequired(IF loc = "en" THEN "keywords" ELSE "zh:keywords"))
    ELSE IF d.type = "api" /\ ~Has(d, "configs") THEN TypeError
    ELSE IF d.type = "api" /\ FalsyStr(d.configs, "api_based_extension_id")
    THEN Reject(ValueOfVarRequired(IF loc = "en" THEN "API-based Extension"
                                                   ELSE "zh:API-based Extension"))
    ELSE IF /\ NotSystemType(d.type) /\ HasFormSchema(cur)
            /\ FirstMissingField(FormSchemaOf(cur), ConfigsOf(d)) # 0
    THEN LET form == FormSchemaOf(cur)[FirstMissingField(FormSchemaOf(cur), ConfigsOf(d))]
         IN  Reject(ValueOfVarRequired(IF loc = "en" THEN form.label["en-US"]
                                                     ELSE form.label["zh-Hans"]))
    ELSE IF ~Has(d, "configs") THEN TypeError
    ELSE IF PresetMissing(d, "inputs_configs") THEN Reject(PresetMessage)
    ELSE IF PresetMissing(d, "outputs_configs") THEN Reject(PresetMessage)
    ELSE Pass

\* handleSaveOutcome with the return missing after the preset notifications
handleSaveOutcomeNoReturn(d, cur, loc) ==
    LET v == Validate(d, cur, loc)
    IN  IF v.kind = "notify" /\ v.message = PresetMessage
        THEN [notify |-> <<v.message>>, save |-> <<formatData(d, cur)>>, fault |-> FALSE]
        ELSE IF v.kind = "notify"
        THEN [notify |-> <<v.message>>, save |-> <<>>, fault |-> FALSE]
        ELSE IF v.kind = "fault" THEN [notify |-> <<>>, save |-> <<>>, fault |-> TRUE]
        ELSE [notify |-> <<>>, save |-> <<formatData(d, cur)>>, fault |-> FALSE]

\* What one run of handleSave does: each failing check notifies and returns;
\* past the checks, onSave(formatData(localeData)).
handleSaveOutcome(d, cur, loc) ==
    LET v == Validate(d, cur, loc)
    IN  IF v.kind = "notify" THEN [notify |-> <<v.message>>, save |-> <<>>, fault |-> FALSE]
        ELSE IF v.kind = "fault" THEN [notify |-> <<>>, save |-> <<>>, fault |-> TRUE]
        ELSE [notify |-> <<>>, save |-> <<formatData(d, cur)>>, fault |-> FALSE]

----------------------------------------------------------------------------
(* The handlers *)

\* a handler that only calls setLocaleData
SetLocaleData(d, ev) ==
    /\ localeData' = d
    /\ notified' = <<>>
    /\ saved' = <<>>
    /\ faulted' = FALSE
    /\ event' = ev
    /\ UNCHANGED <<codeBasedExtensionList, locale>>

\* handleDataTypeChange without configs: undefined
handleDataTypeChangeKeepConfigs(type) ==
    /\ \E i \in 1..Len(providers) : providers[i].key = type
    /\ SetLocaleData(Spread(localeData, [type |-> type]),
                     [name |-> "handleDataTypeChange", type |-> type])

\* onClick of a provider tile: one tile per element of providers
handleDataTypeChange(type) ==
    /\ \E i \in 1..Len(providers) : providers[i].key = type
    /\ SetLocaleData([type |-> type, enabled |-> localeData.enabled],
                     [name |-> "handleDataTypeChange", type |-> type])

\* onChange of the keywords textarea, rendered when type === 'keywords'
handleDataKeywordsChange(value) ==
    /\ localeData.type = "keywords"
    /\ SetLocaleData(
         Spread(localeData,
                [configs |-> Spread(ConfigsOf(localeData),
                                    [keywords |-> KeywordsValue(value)])]),
         [name |-> "handleDataKeywordsChange", value |-> value])

\* handleDataContentChange without ...localeData.configs
handleDataContentChangeNoSpread(contentType, contentConfig) ==
    SetLocaleData(
        Spread(localeData, [configs |-> Single(contentType, contentConfig)]),
        [name |-> "handleDataContentChange", contentType |-> contentType])

\* onConfigChange of the two ModerationContent blocks
handleDataContentChange(contentType, contentConfig) ==
    SetLocaleData(
        Spread(localeData,
               [configs |-> Spread(ConfigsOf(localeData),
                                   Single(contentType, contentConfig))]),
        [name |-> "handleDataContentChange", contentType |-> contentType])

\* onChange of ApiBasedExtensionSelector, rendered when type === 'api'
handleDataApiBasedChange(apiBasedExtensionId) ==
    /\ localeData.type = "api"
    /\ SetLocaleData(
         Spread(localeData,
                [configs |-> Spread(ConfigsOf(localeData),
                                    [api_based_extension_id |-> apiBasedExtensionId])]),
         [name |-> "handleDataApiBasedChange"])

\* onChange of FormGeneration, rendered for a non-system type whose provider
\* has a form_schema
handleDataExtraChange(extraValue) ==
    /\ NotSystemType(localeData.type)
    /\ HasFormSchema(currentProvider)
    /\ SetLocaleData(
         Spread(localeData,
                [configs |-> Spread(ConfigsOf(localeData), extraValue)]),
         [name |-> "handleDataExtraChange", keys |-> DOMAIN extraValue])

\* onClick of the save button
handleSave ==
    LET out == handleSaveOutcome(localeData, currentProvider, locale)
    IN  /\ notified' = out.notify
        /\ saved' = out.save
        /\ faulted' = out.fault
        /\ event' = [name |-> "handleSave"]
        /\ UNCHANGED <<localeData, codeBasedExtensionList, locale>>

\* useSWR resolves: the component renders again with the fetched list
FetchResolved ==
    /\ codeBasedExtensionList = <<>>
    /\ codeBasedExtensionList' = <<CodeBasedExtensionResponse>>
    /\ notified' = <<>>
    /\ saved' = <<>>
    /\ faulted' = FALSE
    /\ event' = [name |-> "FetchResolved"]
    /\ UNCHANGED <<localeData, locale>>

----------------------------------------------------------------------------
(* The data the modal is opened with, and what the user can enter *)

\* an optional value: <<>> for a key that is absent, <<v>> for a key holding v
Opt(S) == {<<>>} \cup {<<v>> : v \in S}

\* the object holding the keys of choice that are present
Build(choice) == [k \in {x \in DOMAIN choice : Len(choice[x]) > 0} |-> choice[k][1]]

InitialTypes == {"openai_moderation", "keywords", "api", "cloud_filter", "retired_filter"}

InitialContentConfigs ==
    {[enabled |-> FALSE],
     [enabled |-> TRUE, preset_response |-> ""],
     [enabled |-> TRUE, preset_response |-> "blocked"]}

InitialConfigs ==
    {Build(c) : c \in
        [inputs_configs : Opt(InitialContentConfigs),
         outputs_configs : Opt(InitialContentConfigs),
         keywords : Opt({"a\nb"}),
         api_based_extension_id : Opt({"ext-1"}),
         api_key : Opt({"key"}),
         region : Opt({"", "us"})]}

\* the ModerationConfig values passed as the data prop
InitialData ==
    {[type |-> t, enabled |-> e] : t \in InitialTypes, e \in BOOLEAN}
    \cup {[type |-> t, enabled |-> e, configs |-> c] :
            t \in InitialTypes, e \in BOOLEAN, c \in InitialConfigs}

Locales == {"en", "zh-Hans"}

\* what ModerationContent hands to onConfigChange
ContentConfigs ==
    {[enabled |-> FALSE, preset_response |-> ""],
     [enabled |-> TRUE, preset_response |-> ""],
     [enabled |-> TRUE, preset_response |-> "blocked"]}

ContentTypes == {"inputs_configs", "outputs_configs"}

\* texts typed into the keywords textarea
KeywordTexts == {"", "a", "a\nb\n"}

ExtensionIds == {"ext-1"}

\* what FormGeneration hands to onChange: values for fields of the schema
ExtraValues(schema) ==
    LET variables == {schema[i].variable : i \in 1..Len(schema)}
    IN  UNION {[ks -> {"", "v"}] : ks \in (SUBSET variables) \ {{}}}

Init ==
    /\ localeData \in InitialData
    /\ codeBasedExtensionList = <<>>
    /\ locale \in Locales
    /\ notified = <<>>
    /\ saved = <<>>
    /\ faulted = FALSE
    /\ event = [name |-> "open"]

Next ==
    \/ \E type \in InitialTypes : handleDataTypeChange(type)
    \/ \E value \in KeywordTexts : handleDataKeywordsChange(value)
    \/ \E contentType \in ContentTypes, contentConfig \in ContentConfigs :
          handleDataContentChange(contentType, contentConfig)
    \/ \E id \in ExtensionIds : handleDataApiBasedChange(id)
    \/ \E extraValue \in ExtraValues(FormSchemaOf(currentProvider)) :
          handleDataExtraChange(extraValue)
    \/ handleSave
    \/ FetchResolved

Spec == Init /\ [][Next]_vars

----------------------------------------------------------------------------
(* The keywords textarea on its own: texts around both limits *)

MaxTextLength == 4

LimitSlack == 1

RECURSIVE TextsOfLength(_)
\* every text of n characters over 'a' and '\n'
TextsOfLength(n) ==
    IF n = 0 THEN {""}
    ELSE {t \o c : t \in TextsOfLength(n - 1), c \in {"a", "\n"}}

ShortTexts == UNION {TextsOfLength(n) : n \in 0..MaxTextLength}

AroundLimit(limit) == (limit - LimitSlack)..(limit + LimitSlack)

\* one long line; many lines with and without a newline at the end; lines
\* separated by blank lines; a long line followed by many lines
LongTexts ==
    {Repeat("x", n) : n \in AroundLimit(MaxLineLength)}
    \cup {Repeat("a\n", n) : n \in AroundLimit(MaxLines)}
    \cup {Repeat("a\n", n) \o "b" : n \in AroundLimit(MaxLines)}
    \cup {Repeat("a\n\n", n) : n \in AroundLimit(MaxLines \div 2)}
    \cup {Repeat("x", n) \o "\n" \o Repeat("a\n", MaxLines) : n \in AroundLimit(MaxLineLength)}

TextareaTexts == ShortTexts \cup LongTexts \cup {"a\nb\n"}

\* the keywords provider selected, with nothing, an empty object or values of
\* several kinds in configs
InitKeywords ==
    /\ localeData \in
         {d \in InitialData :
            /\ d.type = "keywords"
            /\ DOMAIN ConfigsOf(d) \in
                 {{}, {"keywords"}, {"inputs_configs", "api_based_extension_id", "region"}}}
    /\ codeBasedExtensionList = <<>>
    /\ locale = "en"
    /\ notified = <<>>
    /\ saved = <<>>
    /\ faulted = FALSE
    /\ event = [name |-> "open"]

NextKeywords ==
    \/ \E value \in TextareaTexts : handleDataKeywordsChange(value)
    \/ handleDataTypeChange("keywords")

SpecKeywords == InitKeywords /\ [][NextKeywords]_vars

----------------------------------------------------------------------------
(* Claims about the keywords textarea *)

KeywordsJustChanged == event.name = "handleDataKeywordsChange"

\* C6: after handleDataKeywordsChange, whatever the text and the working copy
\* before it, the stored keywords split on newline has at most 100 lines and
\* every line has at most 100 characters.
C6_KeywordsWithinLimits ==
    KeywordsJustChanged =>
        LET lines == Split(localeData.configs.keywords)
        IN  /\ Len(lines) <= 100
            /\ \A i \in 1..Len(lines) : Len(lines[i]) <= 100

\* C6 witness: a text of more than 100 lines with a line of more than 100
\* characters was entered, and 100 lines were stored.
C6_Witness ==
    /\ KeywordsJustChanged
    /\ Len(Split(event.value)) > 100
    /\ \E i \in 1..Len(Split(event.value)) : Len(Split(event.value)[i]) > 100
    /\ Len(Split(localeData.configs.keywords)) = 100

EmptyPriorGetsSample ==
    /\ ConfigsOf(localeData) = EmptyObj
    /\ event'.name = "handleDataKeywordsChange"
    /\ event'.value = "a\nb\n"

\* C7 as stated: handleDataKeywordsChange with the text "a\nb\n" on a working
\* copy without configs stores "a\nb" and the line counter shows 2.
C7_TrailingLineCollapses ==
    [][EmptyPriorGetsSample =>
        /\ localeData'.configs.keywords = "a\nb"
        /\ KeywordsLineCount(localeData)' = 2]_vars

\* C7 as amended: the text "a\nb\n" on a working copy without configs is
\* stored unchanged, as "a\nb\n" (the one empty line after b is kept), and
\* the line counter, which counts the non-empty lines, shows 2.
C7_TrailingLineKept ==
    [][EmptyPriorGetsSample =>
        /\ localeData'.configs.keywords = "a\nb\n"
        /\ KeywordsLineCount(localeData)' = 2]_vars

\* C7 witness: "a\nb\n" was entered and keywords is the only key of configs.
C7_Witness ==
    /\ KeywordsJustChanged
    /\ event.value = "a\nb\n"
    /\ DOMAIN localeData.configs = {"keywords"}
    /\ KeywordsLineCount(localeData) = 2

----------------------------------------------------------------------------
(* Claims about saving *)

SaveJustRan == event.name = "handleSave"

Directions == {"inputs_configs", "outputs_configs"}

\* C1: every config handed to onSave has at least one of inputs_configs and
\* outputs_configs enabled and, unless its type is api, a non-empty
\* preset_response in every enabled one.
C1_SavedConfigIsValid ==
    \A i \in 1..Len(saved) :
        /\ \E dir \in Directions : EnabledOf(saved[i].configs, dir)
        /\ saved[i].type # "api" =>
              \A dir \in Directions :
                  EnabledOf(saved[i].configs, dir) =>
                      ~FalsyStr(saved[i].configs[dir], "preset_response")

\* C1 witness: a config of a type other than api was saved with both
\* directions enabled.
C1_Witness ==
    /\ Len(saved) = 1
    /\ saved[1].type # "api"
    /\ \A dir \in Directions : EnabledOf(saved[1].configs, dir)

\* the form_schema the fetched list declares for a type
DeclaredSchema(type) ==
    FormSchemaOf(FindProvider(ProvidersOf(<<CodeBasedExtensionResponse>>), type))

\* C2: every config handed to onSave whose type is not a system type holds a
\* non-empty value for every variable of its provider's form_schema, whether
\* the provider list has been fetched or not.
C2_SavedDynamicFieldsComplete ==
    \A i \in 1..Len(saved) :
        NotSystemType(saved[i].type) =>
            \A j \in 1..Len(DeclaredSchema(saved[i].type)) :
                ~FalsyStr(saved[i].configs, DeclaredSchema(saved[i].type)[j].variable)

\* The validation rules, each stated on the working copy
NoDirectionEnabled(d) == \A dir \in Directions : ~EnabledOf(ConfigsOf(d), dir)

KeywordsRequired(d) == d.type = "keywords" /\ FalsyStr(ConfigsOf(d), "keywords")

ExtensionRequired(d) == d.type = "api" /\ FalsyStr(ConfigsOf(d), "api_based_extension_id")

\* the schema fields of a dynamic provider that have no value
MissingFields(d, cur) ==
    IF NotSystemType(d.type)
    THEN {j \in 1..Len(FormSchemaOf(cur)) : FalsyStr(ConfigsOf(d), FormSchemaOf(cur)[j].variable)}
    ELSE {}

PresetRequired(d, dir) ==
    /\ d.type # "api"
    /\ EnabledOf(ConfigsOf(d), dir)
    /\ FalsyStr(ConfigsOf(d)[dir], "preset_response")

\* the numbers of the rules that d violates
ViolatedRules(d, cur) ==
    {r \in 1..6 :
        \/ r = 1 /\ NoDirectionEnabled(d)
        \/ r = 2 /\ KeywordsRequired(d)
        \/ r = 3 /\ ExtensionRequired(d)
        \/ r = 4 /\ MissingFields(d, cur) # {}
        \/ r = 5 /\ PresetRequired(d, "inputs_configs")
        \/ r = 6 /\ PresetRequired(d, "outputs_configs")}

Least(S) == CHOOSE x \in S : \A y \in S : x <= y

\* the notification that reports rule r
RuleMessage(r, d, cur, loc) ==
    IF r = 1 THEN ConditionMessage
    ELSE IF r = 2 THEN ValueOfVarRequired(IF loc = "en" THEN "keywords" ELSE "zh:keywords")
    ELSE IF r = 3
    THEN ValueOfVarRequired(IF loc = "en" THEN "API-based Extension" ELSE "zh:API-based Extension")
    ELSE IF r = 4
    THEN ValueOfVarRequired(
            FormSchemaOf(cur)[Least(MissingFields(d, cur))].label[
                IF loc = "en" THEN "en-US" ELSE "zh-Hans"])
    ELSE PresetMessage

\* C3: a save attempt on a working copy that violates a rule raises exactly
\* one notification and calls onSave not at all; on one that violates none
\* it calls onSave exactly once and raises no notification; either way the
\* working copy is the same after the attempt.
C3_SaveNotifiesOrEmits ==
    [][event'.name = "handleSave" =>
        /\ localeData' = localeData
        /\ IF ViolatedRules(localeData, currentProvider) # {}
           THEN Len(notified') = 1 /\ Len(saved') = 0
           ELSE Len(notified') = 0 /\ Len(saved') = 1]_vars

\* C3 witness: a save attempt on a working copy with configs was refused
\* with one notification.
C3_Witness ==
    /\ SaveJustRan
    /\ Has(localeData, "configs")
    /\ ViolatedRules(localeData, currentProvider) # {}
    /\ Len(notified) = 1
    /\ saved = <<>>

\* C4: a save attempt on a working copy that violates rules reports the
\* one that comes first in the order 1 no direction enabled, 2 keywords,
\* 3 api_based_extension_id, 4 schema field, 5 inputs preset_response,
\* 6 outputs preset_response, and for rule 4 the first field of the schema
\* that has no value.
C4_FirstViolatedRuleReported ==
    (SaveJustRan /\ ViolatedRules(localeData, currentProvider) # {}) =>
        notified = <<RuleMessage(Least(ViolatedRules(localeData, currentProvider)),
                                 localeData, currentProvider, locale)>>

\* C4 witness: both schema fields and both preset responses were missing,
\* and the first schema field was reported.
C4_Witness ==
    /\ SaveJustRan
    /\ ViolatedRules(localeData, currentProvider) = {4, 5, 6}
    /\ MissingFields(localeData, currentProvider) = {1, 2}
    /\ notified = <<ValueOfVarRequired("API Key")>>

\* the keys formatData keeps for the working copy's type
ProjectedKeys(d, cur) ==
    Directions
    \cup (IF d.type = "keywords" THEN {"keywords"} ELSE {})
    \cup (IF d.type = "api" THEN {"api_based_extension_id"} ELSE {})
    \cup (IF NotSystemType(d.type)
          THEN {FormSchemaOf(cur)[j].variable : j \in 1..Len(FormSchemaOf(cur))}
          ELSE {})

\* C5: the config handed to onSave holds exactly type, enabled and configs;
\* its configs holds exactly inputs_configs and outputs_configs (the working
\* copy's, or {enabled: false} where the working copy has none), keywords
\* for type keywords, api_based_extension_id for type api, and the schema
\* variables of a dynamic provider, each with the working copy's value; no
\* other key of the working copy's configs is in it.
C5_SavedConfigIsProjection ==
    \A i \in 1..Len(saved) :
        /\ DOMAIN saved[i] = {"type", "enabled", "configs"}
        /\ saved[i].type = localeData.type
        /\ saved[i].enabled = localeData.enabled
        /\ DOMAIN saved[i].configs = ProjectedKeys(localeData, currentProvider)
        /\ \A dir \in Directions :
              saved[i].configs[dir] =
                  IF Has(localeData.configs, dir) THEN localeData.configs[dir]
                  ELSE [enabled |-> FALSE]
        /\ \A k \in ProjectedKeys(localeData, currentProvider) \ Directions :
              Has(localeData.configs, k) /\ saved[i].configs[k] = localeData.configs[k]

\* C5 witness: a working copy of type api that still held keywords and had
\* no outputs_configs was saved.
C5_Witness ==
    /\ Len(saved) = 1
    /\ localeData.type = "api"
    /\ Has(localeData.configs, "keywords")
    /\ ~Has(localeData.configs, "outputs_configs")

\* C9: formatData applied to a config it produced for a working copy that
\* passed the checks, with the same provider list, returns that config.
C9_FormatDataIdempotent ==
    \A i \in 1..Len(saved) : formatData(saved[i], currentProvider) = saved[i]

\* C9 witness: a dynamic provider's working copy was saved and the saved
\* configs differs from the working copy's.
C9_Witness ==
    /\ Len(saved) = 1
    /\ NotSystemType(localeData.type)
    /\ HasFormSchema(currentProvider)
    /\ saved[1].configs # localeData.configs

----------------------------------------------------------------------------
(* Claims about the mutation handlers *)

\* C8: handleDataTypeChange(x) leaves type = x and configs undefined, and
\* enabled as it was.
C8_TypeChangeResetsConfigs ==
    [][event'.name = "handleDataTypeChange" =>
        /\ localeData'.type = event'.type
        /\ ~Has(localeData', "configs")
        /\ localeData'.enabled = localeData.enabled]_vars

\* C8 witness: the provider was changed to cloud_filter on an enabled
\* working copy.
C8_Witness ==
    /\ event.name = "handleDataTypeChange"
    /\ event.type = "cloud_filter"
    /\ localeData.enabled
    /\ ~Has(localeData, "configs")

\* the keys of configs that the handler of event ev names
NamedKeys(ev) ==
    IF ev.name = "handleDataKeywordsChange" THEN {"keywords"}
    ELSE IF ev.name = "handleDataContentChange" THEN {ev.contentType}
    ELSE IF ev.name = "handleDataApiBasedChange" THEN {"api_based_extension_id"}
    ELSE IF ev.name = "handleDataExtraChange" THEN ev.keys
    ELSE {}

\* C10: handleDataKeywordsChange, handleDataContentChange,
\* handleDataApiBasedChange and handleDataExtraChange leave type, enabled and
\* every key of configs they do not name as they were: no such key appears,
\* disappears or changes value.
C10_SettersKeepOtherKeys ==
    [][event'.name \in {"handleDataKeywordsChange", "handleDataContentChange",
                        "handleDataApiBasedChange", "handleDataExtraChange"} =>
        /\ localeData'.type = localeData.type
        /\ localeData'.enabled = localeData.enabled
        /\ Has(localeData', "configs")
        /\ DOMAIN localeData'.configs \ NamedKeys(event')
              = DOMAIN ConfigsOf(localeData) \ NamedKeys(event')
        /\ \A k \in DOMAIN ConfigsOf(localeData) \ NamedKeys(event') :
              localeData'.configs[k] = localeData.configs[k]]_vars

\* C10 witness: region alone was changed on a working copy that holds
\* api_key, keywords and both content configs.
C10_Witness ==
    /\ event.name = "handleDataExtraChange"
    /\ event.keys = {"region"}
    /\ {"api_key", "keywords", "inputs_configs", "outputs_configs"}
          \subseteq DOMAIN localeData.configs

----------------------------------------------------------------------------
(* Claims about reads of an undefined configs *)

\* C11: a save attempt never reads a property of an undefined configs: the
\* unguarded reads of handleSave and the destructuring in formatData are
\* reached only when configs is defined, so every attempt ends with one
\* notification or with one onSave call, never with a TypeError; an attempt
\* on a working copy without configs ends with the notification that no
\* direction is enabled.
C11_SaveNeverFaults ==
    SaveJustRan =>
        /\ ~faulted
        /\ \/ Len(notified) = 1 /\ Len(saved) = 0
           \/ Len(notified) = 0 /\ Len(saved) = 1
        /\ ~Has(localeData, "configs") => notified = <<ConditionMessage>>
        /\ Len(saved) = 1 => Has(localeData, "configs")

\* C11 witness: a save was attempted on a working copy of type keywords
\* whose configs is undefined, and it ended with one notification.
C11_Witness ==
    /\ SaveJustRan
    /\ localeData.type = "keywords"
    /\ ~Has(localeData, "configs")
    /\ ~faulted
    /\ Len(notified) = 1

====
